---- MODULE Spec2Model ----
(***************************************************************************)
(* The durable single-queue job scheduler of College_DPP, in its two       *)
(* backends:                                                               *)
(*   "file": src/queues_on_files   (queue.csv under a whole-file lock)     *)
(*   "sql" : src/queues_on_sqllite (queue.db, table jobs, transactions)    *)
(* Every producer is one run of add_job(); every consumer is one run of    *)
(* worker_loop().  The backend is fixed in the initial state, so a run of  *)
(* the model is a run of one backend.                                      *)
(***************************************************************************)
EXTENDS Integers, Sequences, FiniteSets, Bags, TLC

\* ---------------------------------------------------------------- bounds
NumProducers == 2
NumConsumers == 2
\* data rows of a queue file given to read_queue_with_lock
MaxRows == 2
\* add_job invocations when the two backends run side by side
NumSerialAdds == 3

VARIABLES
    backend,     \* "file" or "sql"
    clock,       \* number of datetime.now() calls made so far
    fileExists,  \* os.path.exists(QUEUE_FILE)
    file,        \* contents of queue.csv as the OS serves it: a sequence of rows
    disk,        \* contents of queue.csv that have reached the disk (fsync)
    tableExists, \* table jobs exists in queue.db
    db,          \* committed contents of table jobs (and its AUTOINCREMENT counter)
    producers,   \* the add_job processes: a bag of their local states
    consumers,   \* the worker_loop processes: a bag of their local states
    claimLog,    \* history: ids claimed, in the order the claims were persisted
    statusLog    \* history: per id, the statuses persisted for it, in order

vars == <<backend, clock, fileExists, file, disk, tableExists, db,
          producers, consumers, claimLog, statusLog>>

\* ------------------------------------------------------- values and helpers
NULL == "NULL"

DefaultHeader == <<"id", "status", "created_at", "updated_at">>

\* datetime.now().isoformat() of the t-th reading of the clock
isoformat(t) == "T" \o ToString(t)

\* str(n)
str(n) == ToString(n)

Min(a, b) == IF a < b THEN a ELSE b

\* [""] * n  (an empty list when n <= 0)
Blanks(n) == [i \in 1..n |-> ""]

\* dict(zip(header, row)): a later duplicate key wins
Zip(header, row) ==
    LET n == Min(Len(header), Len(row))
    IN  [k \in {header[i] : i \in 1..n} |->
            row[CHOOSE i \in 1..n : header[i] = k /\ \A j \in (i+1)..n : header[j] # k]]

\* d.get(k, default)
Get(d, k, default) == IF k \in DOMAIN d THEN d[k] ELSE default

\* d[k] = v
Put(d, k, v) == [x \in (DOMAIN d) \cup {k} |-> IF x = k THEN v ELSE d[x]]

\* ------------------------------------------------ flat-file backend: data
\* The text of queue.csv is held as its sequence of lines, every line as the
\* sequence of its comma-separated fields (no field of this program contains a
\* comma or a newline); the empty file is the empty sequence.

\* add_job: rows -> (header, data_rows)
header_of(rows) == IF rows # <<>> THEN rows[1] ELSE DefaultHeader
data_rows_of(rows) == IF rows # <<>> THEN Tail(rows) ELSE <<>>

\* mutant of next_file_id: the + 1 forgotten
next_file_id_off_by_one(data_rows) == Len(data_rows)

\* add_job: new_id = len(data_rows) + 1
next_file_id(data_rows) == Len(data_rows) + 1

\* add_job: the row appended for the new job
new_row(new_id, now) == <<str(new_id), "pending", now, "">>

\* add_job: the rows written back (header, old rows as read, the new row)
csv_string(rows, now) ==
    <<header_of(rows)>> \o data_rows_of(rows)
        \o <<new_row(next_file_id(data_rows_of(rows)), now)>>

\* mutant of pad_row: the row is not padded
pad_row_none(header, row) == row

\* read_queue_with_lock: row += [""] * (len(header) - len(row))
pad_row(header, row) == row \o Blanks(Len(header) - Len(row))

\* read_queue_with_lock: the header read (the default one for an empty file)
read_header(content) == IF content = <<>> THEN DefaultHeader ELSE content[1]

\* read_queue_with_lock: the jobs read, one dict per data row, in file order
read_jobs(content) ==
    IF content = <<>> THEN <<>>
    ELSE [i \in 1..(Len(content) - 1) |->
            Zip(content[1], pad_row(content[1], content[i + 1]))]

\* write_queue_with_lock: the lines written for (header, jobs)
csv_lines(header, jobs) ==
    <<header>> \o [i \in 1..Len(jobs) |->
        << Get(jobs[i], "id", ""), Get(jobs[i], "status", ""),
           Get(jobs[i], "created_at", ""), Get(jobs[i], "updated_at", "") >>]

\* os.fsync: what the disk holds after a write of data (d: what it held before)
fsync(data, d) == data

\* mutant of find_pending_job: the last pending job instead of the first
find_pending_job_last(jobs) ==
    IF \E i \in 1..Len(jobs) : Get(jobs[i], "status", NULL) = "pending"
    THEN CHOOSE i \in 1..Len(jobs) :
            /\ Get(jobs[i], "status", NULL) = "pending"
            /\ \A j \in (i + 1)..Len(jobs) : Get(jobs[j], "status", NULL) # "pending"
    ELSE 0

\* find_pending_job: index of the first job whose status is pending, 0 for None
find_pending_job(jobs) ==
    IF \E i \in 1..Len(jobs) : Get(jobs[i], "status", NULL) = "pending"
    THEN CHOOSE i \in 1..Len(jobs) :
            /\ Get(jobs[i], "status", NULL) = "pending"
            /\ \A j \in 1..(i - 1) : Get(jobs[j], "status", NULL) # "pending"
    ELSE 0

\* mutant of claim_job: updated_at is not set
claim_job_no_stamp(job, now) == Put(job, "status", "in_progress")

\* worker_loop: job["status"] = "in_progress"; job["updated_at"] = now
claim_job(job, now) == Put(Put(job, "status", "in_progress"), "updated_at", now)

\* mutant of mark_jobs_done: the test on the id is missing
mark_jobs_done_all(jobs, id, now) ==
    [i \in 1..Len(jobs) |-> Put(Put(jobs[i], "status", "done"), "updated_at", now)]

\* worker_loop: for j in jobs2: if j.get("id") == job["id"]: mark j done
mark_jobs_done(jobs, id, now) ==
    [i \in 1..Len(jobs) |->
        IF Get(jobs[i], "id", NULL) = id
        THEN Put(Put(jobs[i], "status", "done"), "updated_at", now)
        ELSE jobs[i]]

\* ------------------------------------------------------------ history
\* One status persisted for one id: appended unless it repeats the last one.
Log1(log, id, s) ==
    LET old == Get(log, id, <<>>)
    IN  IF old # <<>> /\ old[Len(old)] = s THEN log ELSE Put(log, id, Append(old, s))

RECURSIVE LogAll(_, _, _)
\* The statuses of the records recs[i..] persisted by one write.
LogAll(log, recs, i) ==
    IF i > Len(recs) THEN log
    ELSE LogAll(Log1(log, recs[i][1], recs[i][2]), recs, i + 1)

\* (id, status) of every record of a queue file
FileRecs(content) ==
    LET jobs == read_jobs(content)
    IN  [i \in 1..Len(jobs) |-> <<Get(jobs[i], "id", ""), Get(jobs[i], "status", "")>>]

\* --------------------------------------------------------------- Init
\* The processes of one kind run the same code: the state holds the bag of
\* their local states (pc: position, lock: the lock this process holds, err:
\* what raised the exception it is handling or ended with, then the locals of
\* the function).
Db0 == [rows |-> <<>>, seq |-> 0]
NoJob == [id |-> IF backend = "file" THEN "" ELSE 0]
Producer0 == [pc |-> "start", lock |-> "none", err |-> "", file_exists |-> FALSE,
              csv |-> <<>>, new_id |-> 0, now |-> "", tx |-> Db0]
Consumer0 == [pc |-> "start", lock |-> "none", err |-> "", header |-> <<>>, jobs |-> <<>>,
              job |-> NoJob, tx |-> Db0]

\* n copies of s
Copies(s, n) == IF n = 0 THEN EmptyBag ELSE [x \in {s} |-> n]

\* the bag B with one copy of old replaced by new
Replace(B, old, new) == (B (-) SetToBag({old})) (+) SetToBag({new})

Procs == BagToSet(producers) \cup BagToSet(consumers)

\* The lock on queue.csv (msvcrt.locking) or on queue.db (SQLite) as the other
\* processes meet it.
LockFree == \A s \in Procs : s.lock = "none"
NoExclusive == \A s \in Procs : s.lock # "exclusive"

\* lock_file(f): the whole-file exclusive lock, once granted
lock_file(s) == [s EXCEPT !.lock = "exclusive"]

\* unlock_file(f)
unlock_file(s) == [s EXCEPT !.lock = "none"]

\* conn.execute("BEGIN EXCLUSIVE"), once granted
begin_exclusive(s) == [s EXCEPT !.lock = "exclusive"]

\* the implicit BEGIN of sqlite3 before an INSERT or UPDATE, and the write lock
\* the statement takes, once granted
begin_write(s) == [s EXCEPT !.lock = "reserved"]

\* conn.commit() / conn.rollback(): the transaction ends and its lock is released
end_transaction(s) == [s EXCEPT !.lock = "none"]

\* Neither queue.csv nor queue.db exists; no process has started.
Init ==
    /\ backend \in {"file", "sql"}
    /\ clock = 0
    /\ fileExists = FALSE
    /\ file = <<>>
    /\ disk = <<>>
    /\ tableExists = FALSE
    /\ db = Db0
    /\ producers = Copies(Producer0, NumProducers)
    /\ consumers = Copies(Consumer0, NumConsumers)
    /\ claimLog = <<>>
    /\ statusLog = <<>>

SqlVars == <<tableExists, db>>
FileVars == <<fileExists, file, disk>>
History == <<claimLog, statusLog>>

\* ------------------------------------------- flat-file producer: add_job
\* file_exists = os.path.exists(QUEUE_FILE); mode chosen from it
FileAddJobExists ==
    \E s \in BagToSet(producers) :
    /\ backend = "file" /\ s.pc = "start"
    /\ producers' = Replace(producers, s, [s EXCEPT !.pc = "open", !.file_exists = fileExists])
    /\ UNCHANGED <<backend, clock, FileVars, SqlVars, consumers, History>>

\* What open(QUEUE_FILE, mode) leaves in the file: "w+b" creates or truncates
\* it, "r+b" leaves it as it is.
open_contents(file_exists, content) == IF file_exists THEN content ELSE <<>>

\* with open(QUEUE_FILE, mode) as f
FileAddJobOpen ==
    \E s \in BagToSet(producers) :
    /\ backend = "file" /\ s.pc = "open"
    /\ fileExists' = TRUE
    /\ file' = open_contents(s.file_exists, file)
    /\ producers' = Replace(producers, s, [s EXCEPT !.pc = "lock"])
    /\ UNCHANGED <<backend, clock, disk, SqlVars, consumers, History>>

\* open(QUEUE_FILE, "w+b") refused because another process holds the byte-range
\* lock on the file it would truncate: add_job ends with the error
FileAddJobOpenDenied ==
    \E s \in BagToSet(producers) :
    /\ backend = "file" /\ s.pc = "open"
    /\ ~s.file_exists
    /\ ~LockFree
    /\ producers' = Replace(producers, s, [s EXCEPT !.pc = "failed", !.err = "open"])
    /\ UNCHANGED <<backend, clock, FileVars, SqlVars, consumers, History>>

\* add_job: content = f.read().decode("utf-8") if file_exists else ""
add_job_content(file_exists, content) == IF file_exists THEN content ELSE <<>>

\* lock_file(f) granted; content read (only if file_exists); rows, new_id and
\* csv_string computed
FileAddJobLock ==
    \E s \in BagToSet(producers) :
    /\ backend = "file" /\ s.pc = "lock"
    /\ LockFree
    /\ clock' = clock + 1
    /\ LET rows == add_job_content(s.file_exists, file)
       IN  producers' = Replace(producers, s, [lock_file(s) EXCEPT
                !.pc = "write",
                !.new_id = next_file_id(data_rows_of(rows)),
                !.now = isoformat(clock'),
                !.csv = csv_string(rows, isoformat(clock'))])
    /\ UNCHANGED <<backend, FileVars, SqlVars, consumers, History>>

\* msvcrt.locking(LK_LOCK) gives up after its ten attempts: OSError, which
\* add_job does not catch
FileAddJobLockTimeout ==
    \E s \in BagToSet(producers) :
    /\ backend = "file" /\ s.pc = "lock"
    /\ ~LockFree
    /\ producers' = Replace(producers, s, [s EXCEPT !.pc = "failed", !.err = "lock"])
    /\ UNCHANGED <<backend, clock, FileVars, SqlVars, consumers, History>>

\* f.seek(0); f.truncate(); f.write(...); f.flush(); os.fsync(...)
FileAddJobWrite ==
    \E s \in BagToSet(producers) :
    /\ backend = "file" /\ s.pc = "write"
    /\ file' = s.csv
    /\ disk' = fsync(file', disk)
    /\ statusLog' = LogAll(statusLog, FileRecs(file'), 1)
    /\ producers' = Replace(producers, s, [s EXCEPT !.pc = "unlock", !.csv = <<>>])
    /\ UNCHANGED <<backend, clock, fileExists, SqlVars, consumers, claimLog>>

\* unlock_file(f); the with block closes f; print
FileAddJobUnlock ==
    \E s \in BagToSet(producers) :
    /\ backend = "file" /\ s.pc = "unlock"
    /\ producers' = Replace(producers, s, [unlock_file(s) EXCEPT !.pc = "done"])
    /\ UNCHANGED <<backend, clock, FileVars, SqlVars, consumers, History>>

\* The operating system writes the cached contents of queue.csv to the disk.
Writeback ==
    /\ backend = "file"
    /\ disk # file
    /\ disk' = file
    /\ UNCHANGED <<backend, clock, fileExists, file, SqlVars, producers, consumers, History>>

\* ---------------------------------------- flat-file consumer: worker_loop
\* read_queue_with_lock without the file: it returns (None, None, []) and
\* worker_loop sleeps
FileWorkerNoFile ==
    \E s \in BagToSet(consumers) :
    /\ backend = "file" /\ s.pc = "start"
    /\ ~fileExists
    /\ consumers' = Replace(consumers, s, [s EXCEPT !.pc = "sleep"])
    /\ UNCHANGED <<backend, clock, FileVars, SqlVars, producers, History>>

\* read_queue_with_lock with the file (once there, the file stays): open "r+b";
\* lock_file(f) granted; the file is read and parsed; find_pending_job; either
\* no pending job, or the job found is set to in_progress in memory
FileWorkerLock ==
    \E s \in BagToSet(consumers) :
    /\ backend = "file" /\ s.pc = "start"
    /\ fileExists
    /\ LockFree
    /\ LET header == read_header(file)
           jobs == read_jobs(file)
           k == find_pending_job(jobs)
       IN  IF k = 0
           THEN /\ consumers' = Replace(consumers, s,
                        [lock_file(s) EXCEPT !.pc = "idle_unlock"])
                /\ UNCHANGED clock
           ELSE /\ clock' = clock + 1
                /\ consumers' = Replace(consumers, s, [lock_file(s) EXCEPT
                      !.pc = "claim_write",
                      !.header = header,
                      !.job = claim_job(jobs[k], isoformat(clock')),
                      !.jobs = [jobs EXCEPT ![k] = claim_job(jobs[k], isoformat(clock'))]])
    /\ UNCHANGED <<backend, FileVars, SqlVars, producers, History>>

\* msvcrt.locking(LK_LOCK) gives up after its ten attempts (in the claim or in
\* the complete step) and raises OSError with errno EDEADLOCK, which is not a
\* PermissionError: lock_file does not retry and the error reaches the handler
\* of worker_loop.  A lock this process still holds through an earlier file
\* object shuts out its new file object as well.
FileWorkerLockTimeout ==
    \E s \in BagToSet(consumers) :
    /\ backend = "file" /\ s.pc \in {"start", "done_lock"}
    /\ fileExists
    /\ ~LockFree
    /\ consumers' = Replace(consumers, s,
            [Consumer0 EXCEPT !.pc = "except", !.lock = s.lock, !.err = "lock"])
    /\ UNCHANGED <<backend, clock, FileVars, SqlVars, producers, History>>

\* read_queue_with_lock raises after lock_file(f) (f.read or decode fails): no
\* unlock_file, no f.close(); the error reaches the handler of worker_loop
\* with the lock still held by f
FileWorkerReadError ==
    \E s \in BagToSet(consumers) :
    /\ backend = "file" /\ s.pc = "start"
    /\ fileExists
    /\ LockFree
    /\ consumers' = Replace(consumers, s,
            [lock_file(Consumer0) EXCEPT !.pc = "except", !.err = "read"])
    /\ UNCHANGED <<backend, clock, FileVars, SqlVars, producers, History>>

\* write_queue_with_lock raises before it has changed the file (f.seek or
\* f.truncate fails): no unlock_file, no f.close(); the error reaches the
\* handler of worker_loop with the lock still held by f (or f2)
FileWorkerWriteError ==
    \E s \in BagToSet(consumers) :
    /\ backend = "file" /\ s.pc \in {"claim_write", "done_write"}
    /\ consumers' = Replace(consumers, s,
            [Consumer0 EXCEPT !.pc = "except", !.lock = s.lock, !.err = "write"])
    /\ UNCHANGED <<backend, clock, FileVars, SqlVars, producers, History>>

\* The consumer process dies in consume_job, after its claim was written and
\* before the completion.
FileWorkerCrash ==
    \E s \in BagToSet(consumers) :
    /\ backend = "file" /\ s.pc = "consume"
    /\ consumers' = Replace(consumers, s, [s EXCEPT !.pc = "crashed"])
    /\ UNCHANGED <<backend, clock, FileVars, SqlVars, producers, History>>

\* mutant of FileWorkerIdleUnlock: the consumer sleeps without unlock_file(f)
FileWorkerIdleKeepsLock ==
    \E s \in BagToSet(consumers) :
    /\ backend = "file" /\ s.pc = "idle_unlock"
    /\ consumers' = Replace(consumers, s, [s EXCEPT !.pc = "sleep"])
    /\ UNCHANGED <<backend, clock, FileVars, SqlVars, producers, History>>

\* no pending job: unlock_file(f); f.close()
FileWorkerIdleUnlock ==
    \E s \in BagToSet(consumers) :
    /\ backend = "file" /\ s.pc = "idle_unlock"
    /\ consumers' = Replace(consumers, s, [unlock_file(s) EXCEPT !.pc = "sleep"])
    /\ UNCHANGED <<backend, clock, FileVars, SqlVars, producers, History>>

\* time.sleep(5); continue
FileWorkerSleep ==
    \E s \in BagToSet(consumers) :
    /\ backend = "file" /\ s.pc = "sleep"
    /\ consumers' = Replace(consumers, s, [s EXCEPT !.pc = "start"])
    /\ UNCHANGED <<backend, clock, FileVars, SqlVars, producers, History>>

\* write_queue_with_lock(f, header, jobs) of the claim
FileWorkerClaimWrite ==
    \E s \in BagToSet(consumers) :
    /\ backend = "file" /\ s.pc = "claim_write"
    /\ file' = csv_lines(s.header, s.jobs)
    /\ disk' = fsync(file', disk)
    /\ statusLog' = LogAll(statusLog, FileRecs(file'), 1)
    /\ claimLog' = Append(claimLog, s.job["id"])
    /\ consumers' = Replace(consumers, s,
            [s EXCEPT !.pc = "claim_unlock", !.header = <<>>, !.jobs = <<>>])
    /\ UNCHANGED <<backend, clock, fileExists, SqlVars, producers>>

\* mutant of FileWorkerClaimUnlock: consume_job is called with the lock held
FileWorkerClaimUnlockLate ==
    \E s \in BagToSet(consumers) :
    /\ backend = "file" /\ s.pc = "claim_unlock"
    /\ consumers' = Replace(consumers, s, [s EXCEPT !.pc = "consume"])
    /\ UNCHANGED <<backend, clock, FileVars, SqlVars, producers, History>>

\* unlock_file(f); f.close() after the claim
FileWorkerClaimUnlock ==
    \E s \in BagToSet(consumers) :
    /\ backend = "file" /\ s.pc = "claim_unlock"
    /\ consumers' = Replace(consumers, s, [unlock_file(s) EXCEPT !.pc = "consume"])
    /\ UNCHANGED <<backend, clock, FileVars, SqlVars, producers, History>>

\* consume_job(job) returns; read_queue_with_lock starts again: without the
\* file, "continue"; otherwise the file is opened "r+b"
FileWorkerConsume ==
    \E s \in BagToSet(consumers) :
    /\ backend = "file" /\ s.pc = "consume"
    /\ consumers' = Replace(consumers, s,
            IF fileExists THEN [s EXCEPT !.pc = "done_lock"] ELSE Consumer0)
    /\ UNCHANGED <<backend, clock, FileVars, SqlVars, producers, History>>

\* lock_file(f2) granted; the file is read again; every job with the claimed
\* id is set to done in memory
FileWorkerDoneLock ==
    \E s \in BagToSet(consumers) :
    /\ backend = "file" /\ s.pc = "done_lock"
    /\ LockFree
    /\ LET jobs2 == read_jobs(file)
           id == s.job["id"]
           hit == \E i \in 1..Len(jobs2) : Get(jobs2[i], "id", NULL) = id
       IN  /\ clock' = IF hit THEN clock + 1 ELSE clock
           /\ consumers' = Replace(consumers, s, [lock_file(s) EXCEPT
                 !.pc = "done_write",
                 !.header = read_header(file),
                 !.jobs = mark_jobs_done(jobs2, id, isoformat(clock'))])
    /\ UNCHANGED <<backend, FileVars, SqlVars, producers, History>>

\* write_queue_with_lock(f2, header2, jobs2) of the completion
FileWorkerDoneWrite ==
    \E s \in BagToSet(consumers) :
    /\ backend = "file" /\ s.pc = "done_write"
    /\ file' = csv_lines(s.header, s.jobs)
    /\ disk' = fsync(file', disk)
    /\ statusLog' = LogAll(statusLog, FileRecs(file'), 1)
    /\ consumers' = Replace(consumers, s,
            [s EXCEPT !.pc = "done_unlock", !.header = <<>>, !.jobs = <<>>, !.job = NoJob])
    /\ UNCHANGED <<backend, clock, fileExists, SqlVars, producers, claimLog>>

\* unlock_file(f2); f2.close(); next iteration
FileWorkerDoneUnlock ==
    \E s \in BagToSet(consumers) :
    /\ backend = "file" /\ s.pc = "done_unlock"
    /\ consumers' = Replace(consumers, s, [unlock_file(s) EXCEPT !.pc = "start"])
    /\ UNCHANGED <<backend, clock, FileVars, SqlVars, producers, History>>

\* mutant of FileWorkerExcept: the handler ends worker_loop
FileWorkerExceptEnds ==
    \E s \in BagToSet(consumers) :
    /\ backend = "file" /\ s.pc = "except"
    /\ consumers' = Replace(consumers, s, [s EXCEPT !.pc = "terminated"])
    /\ UNCHANGED <<backend, clock, FileVars, SqlVars, producers, History>>

\* The lock a consumer keeps when it leaves its handler: the file object of a
\* failed read_queue_with_lock is a local of that call and is closed (its lock
\* dropped) when the exception and its traceback are freed at the end of the
\* handler; the file object of a failed write is the local f (or f2) of
\* worker_loop, which stays open.
lock_after_except(s) == IF s.err = "read" THEN "none" ELSE s.lock

\* except Exception: print; time.sleep(5); next iteration
FileWorkerExcept ==
    \E s \in BagToSet(consumers) :
    /\ backend = "file" /\ s.pc = "except"
    /\ consumers' = Replace(consumers, s,
            [s EXCEPT !.pc = "start", !.err = "", !.lock = lock_after_except(s)])
    /\ UNCHANGED <<backend, clock, FileVars, SqlVars, producers, History>>

FileNext ==
    \/ FileAddJobExists \/ FileAddJobOpen \/ FileAddJobOpenDenied
    \/ FileAddJobLock \/ FileAddJobLockTimeout
    \/ FileAddJobWrite \/ FileAddJobUnlock
    \/ Writeback
    \/ FileWorkerNoFile \/ FileWorkerLock \/ FileWorkerLockTimeout
    \/ FileWorkerReadError \/ FileWorkerWriteError \/ FileWorkerCrash
    \/ FileWorkerIdleUnlock \/ FileWorkerSleep
    \/ FileWorkerClaimWrite \/ FileWorkerClaimUnlock \/ FileWorkerConsume
    \/ FileWorkerDoneLock \/ FileWorkerDoneWrite \/ FileWorkerDoneUnlock
    \/ FileWorkerExcept

\* ------------------------------------------ transactional backend: data
\* Table jobs: its rows in rowid order, each [id, status, created_at,
\* updated_at], and seq, the largest id AUTOINCREMENT has ever assigned.

MaxOf(S) == IF S = {} THEN 0 ELSE CHOOSE m \in S : \A x \in S : x <= m

\* mutant of next_rowid: the largest id so far, the + 1 forgotten
next_rowid_reused(d) == MaxOf({d.rows[i].id : i \in 1..Len(d.rows)} \cup {d.seq})

\* id INTEGER PRIMARY KEY AUTOINCREMENT: the rowid of the next INSERT
next_rowid(d) == MaxOf({d.rows[i].id : i \in 1..Len(d.rows)} \cup {d.seq}) + 1

\* INSERT INTO jobs (status, created_at) VALUES (?, ?): updated_at stays NULL
sql_insert(d, status, created_at) ==
    [rows |-> Append(d.rows, [id |-> next_rowid(d), status |-> status,
                              created_at |-> created_at, updated_at |-> NULL]),
     seq |-> next_rowid(d)]

\* SELECT id ... WHERE status = 'pending' ORDER BY id LIMIT 1: the id, 0 for no row
sql_select_pending(d) ==
    LET ids == {d.rows[i].id : i \in {j \in 1..Len(d.rows) : d.rows[j].status = "pending"}}
    IN  IF ids = {} THEN 0 ELSE CHOOSE m \in ids : \A x \in ids : m <= x

\* UPDATE jobs SET status = ?, updated_at = ? WHERE id = ?
sql_update(d, status, updated_at, id) ==
    [d EXCEPT !.rows = [i \in 1..Len(d.rows) |->
        IF d.rows[i].id = id
        THEN [d.rows[i] EXCEPT !.status = status, !.updated_at = updated_at]
        ELSE d.rows[i]]]

\* (id, status) of every row of the table
SqlRecs(d) == [i \in 1..Len(d.rows) |-> <<d.rows[i].id, d.rows[i].status>>]

\* init_db() can run: CREATE TABLE IF NOT EXISTS only reads the schema when
\* the table is there, and writes when it is not
CanInitDb == IF tableExists THEN NoExclusive ELSE LockFree

\* --------------------------------------- transactional producer: add_job
\* init_db(); now = datetime.now().isoformat()
SqlAddJobInit ==
    \E s \in BagToSet(producers) :
    /\ backend = "sql" /\ s.pc = "start"
    /\ CanInitDb
    /\ tableExists' = TRUE
    /\ clock' = clock + 1
    /\ producers' = Replace(producers, s, [s EXCEPT !.pc = "insert", !.now = isoformat(clock')])
    /\ UNCHANGED <<backend, FileVars, db, consumers, History>>

\* init_db() or the INSERT finds the database locked until the busy timeout:
\* sqlite3.OperationalError, which add_job does not catch
SqlAddJobBusy ==
    \E s \in BagToSet(producers) :
    /\ backend = "sql"
    /\ IF s.pc = "start" THEN ~CanInitDb ELSE s.pc = "insert" /\ ~LockFree
    /\ producers' = Replace(producers, s, [s EXCEPT !.pc = "failed", !.err = "busy"])
    /\ UNCHANGED <<backend, clock, FileVars, SqlVars, consumers, History>>

\* conn.execute("INSERT ..."): the implicit transaction begins and takes the
\* write lock; job_id = last_insert_rowid()
SqlAddJobInsert ==
    \E s \in BagToSet(producers) :
    /\ backend = "sql" /\ s.pc = "insert"
    /\ LockFree
    /\ producers' = Replace(producers, s, [begin_write(s) EXCEPT
            !.pc = "commit",
            !.new_id = next_rowid(db),
            !.tx = sql_insert(db, "pending", s.now)])
    /\ UNCHANGED <<backend, clock, FileVars, SqlVars, consumers, History>>

\* the with block commits; print
SqlAddJobCommit ==
    \E s \in BagToSet(producers) :
    /\ backend = "sql" /\ s.pc = "commit"
    /\ db' = s.tx
    /\ statusLog' = LogAll(statusLog, SqlRecs(db'), 1)
    /\ producers' = Replace(producers, s, [end_transaction(s) EXCEPT !.pc = "done", !.tx = Db0])
    /\ UNCHANGED <<backend, clock, FileVars, tableExists, consumers, claimLog>>

\* ----------------------------------- transactional consumer: worker_loop
\* init_db() before the loop
SqlWorkerInit ==
    \E s \in BagToSet(consumers) :
    /\ backend = "sql" /\ s.pc = "start"
    /\ CanInitDb
    /\ tableExists' = TRUE
    /\ consumers' = Replace(consumers, s, [s EXCEPT !.pc = "begin"])
    /\ UNCHANGED <<backend, clock, FileVars, db, producers, History>>

\* init_db() before the loop finds the database locked until the busy timeout:
\* the error is raised outside the try and ends worker_loop
SqlWorkerInitBusy ==
    \E s \in BagToSet(consumers) :
    /\ backend = "sql" /\ s.pc = "start"
    /\ ~CanInitDb
    /\ consumers' = Replace(consumers, s, [s EXCEPT !.pc = "terminated", !.err = "busy"])
    /\ UNCHANGED <<backend, clock, FileVars, SqlVars, producers, History>>

\* fetch_pending_job: conn.execute("BEGIN EXCLUSIVE") granted
SqlFetchBegin ==
    \E s \in BagToSet(consumers) :
    /\ backend = "sql" /\ s.pc = "begin"
    /\ LockFree
    /\ consumers' = Replace(consumers, s, [begin_exclusive(s) EXCEPT !.pc = "select"])
    /\ UNCHANGED <<backend, clock, FileVars, SqlVars, producers, History>>

\* BEGIN EXCLUSIVE (fetch_pending_job) or the UPDATE of mark_done finds the
\* database locked until the busy timeout: rollback, close, raise; the error
\* reaches the handler of worker_loop
SqlWorkerBusy ==
    \E s \in BagToSet(consumers) :
    /\ backend = "sql" /\ s.pc \in {"begin", "mark_done"}
    /\ ~LockFree
    /\ consumers' = Replace(consumers, s, [Consumer0 EXCEPT !.pc = "except", !.err = "busy"])
    /\ UNCHANGED <<backend, clock, FileVars, SqlVars, producers, History>>

\* mutant of SqlFetchError: the handler re-raises without conn.rollback() and
\* conn.close()
SqlFetchErrorNoRollback ==
    \E s \in BagToSet(consumers) :
    /\ backend = "sql" /\ s.pc \in {"select", "claim_commit"}
    /\ db' = db
    /\ consumers' = Replace(consumers, s,
            [Consumer0 EXCEPT !.pc = "except", !.err = "fetch", !.lock = s.lock])
    /\ UNCHANGED <<backend, clock, FileVars, tableExists, producers, History>>

\* fetch_pending_job: the SELECT, the UPDATE or conn.commit() raises: except
\* Exception: conn.rollback(); conn.close(); raise; the error reaches the
\* handler of worker_loop
SqlFetchError ==
    \E s \in BagToSet(consumers) :
    /\ backend = "sql" /\ s.pc \in {"select", "claim_commit"}
    /\ db' = db
    /\ consumers' = Replace(consumers, s,
            [end_transaction(Consumer0) EXCEPT !.pc = "except", !.err = "fetch"])
    /\ UNCHANGED <<backend, clock, FileVars, tableExists, producers, History>>

\* mark_done: conn.commit() raises: the with block rolls back; the error
\* reaches the handler of worker_loop
SqlMarkDoneError ==
    \E s \in BagToSet(consumers) :
    /\ backend = "sql" /\ s.pc = "mark_commit"
    /\ consumers' = Replace(consumers, s,
            [end_transaction(Consumer0) EXCEPT !.pc = "except", !.err = "mark_done"])
    /\ UNCHANGED <<backend, clock, FileVars, SqlVars, producers, History>>

\* The consumer process dies in consume_job, after its claim was committed and
\* before mark_done.
SqlWorkerCrash ==
    \E s \in BagToSet(consumers) :
    /\ backend = "sql" /\ s.pc = "consume"
    /\ consumers' = Replace(consumers, s, [s EXCEPT !.pc = "crashed"])
    /\ UNCHANGED <<backend, clock, FileVars, SqlVars, producers, History>>

\* fetch_pending_job: the SELECT; without a row rollback, close, return None;
\* with a row job_id = row[0]
SqlFetchSelect ==
    \E s \in BagToSet(consumers) :
    /\ backend = "sql" /\ s.pc = "select"
    /\ LET job_id == sql_select_pending(db)
       IN  consumers' = Replace(consumers, s,
               IF job_id = 0
               THEN [end_transaction(s) EXCEPT !.pc = "sleep"]
               ELSE [s EXCEPT !.pc = "claim_commit", !.job = [id |-> job_id]])
    /\ UNCHANGED <<backend, clock, FileVars, SqlVars, producers, History>>

\* fetch_pending_job: the UPDATE to in_progress (no other process reads or
\* writes the database inside the exclusive transaction); conn.commit();
\* conn.close(); return {"id": job_id}
SqlFetchCommit ==
    \E s \in BagToSet(consumers) :
    /\ backend = "sql" /\ s.pc = "claim_commit"
    /\ clock' = clock + 1
    /\ db' = sql_update(db, "in_progress", isoformat(clock'), s.job["id"])
    /\ statusLog' = LogAll(statusLog, SqlRecs(db'), 1)
    /\ claimLog' = Append(claimLog, s.job["id"])
    /\ consumers' = Replace(consumers, s, [end_transaction(s) EXCEPT !.pc = "consume"])
    /\ UNCHANGED <<backend, FileVars, tableExists, producers>>

\* consume_job(job) returns
SqlWorkerConsume ==
    \E s \in BagToSet(consumers) :
    /\ backend = "sql" /\ s.pc = "consume"
    /\ consumers' = Replace(consumers, s, [s EXCEPT !.pc = "mark_done"])
    /\ UNCHANGED <<backend, clock, FileVars, SqlVars, producers, History>>

\* mark_done: the UPDATE to done; its implicit transaction takes the write lock
SqlMarkDone ==
    \E s \in BagToSet(consumers) :
    /\ backend = "sql" /\ s.pc = "mark_done"
    /\ LockFree
    /\ clock' = clock + 1
    /\ consumers' = Replace(consumers, s, [begin_write(s) EXCEPT
            !.pc = "mark_commit",
            !.tx = sql_update(db, "done", isoformat(clock'), s.job["id"])])
    /\ UNCHANGED <<backend, FileVars, SqlVars, producers, History>>

\* mark_done: conn.commit(); next iteration
SqlMarkDoneCommit ==
    \E s \in BagToSet(consumers) :
    /\ backend = "sql" /\ s.pc = "mark_commit"
    /\ db' = s.tx
    /\ statusLog' = LogAll(statusLog, SqlRecs(db'), 1)
    /\ consumers' = Replace(consumers, s,
            [end_transaction(s) EXCEPT !.pc = "begin", !.job = NoJob, !.tx = Db0])
    /\ UNCHANGED <<backend, clock, FileVars, tableExists, producers, claimLog>>

\* no pending job, or the handler of worker_loop: time.sleep(5); next iteration
SqlWorkerSleep ==
    \E s \in BagToSet(consumers) :
    /\ backend = "sql" /\ s.pc \in {"sleep", "except"}
    /\ consumers' = Replace(consumers, s, [s EXCEPT !.pc = "begin", !.err = ""])
    /\ UNCHANGED <<backend, clock, FileVars, SqlVars, producers, History>>

SqlNext ==
    \/ SqlAddJobInit \/ SqlAddJobBusy \/ SqlAddJobInsert \/ SqlAddJobCommit
    \/ SqlWorkerInit \/ SqlWorkerInitBusy
    \/ SqlFetchBegin \/ SqlWorkerBusy \/ SqlFetchSelect \/ SqlFetchCommit
    \/ SqlFetchError \/ SqlMarkDoneError \/ SqlWorkerCrash
    \/ SqlWorkerConsume \/ SqlMarkDone \/ SqlMarkDoneCommit
    \/ SqlWorkerSleep

Next == FileNext \/ SqlNext

Spec == Init /\ [][Next]_vars

\* ------------------------------------------- a consume_job that raises
\* consume_job(job) raises: the error reaches the handler of worker_loop; the
\* lock was released and the file closed before the call
FileWorkerConsumeError ==
    \E s \in BagToSet(consumers) :
    /\ backend = "file" /\ s.pc = "consume"
    /\ consumers' = Replace(consumers, s, [Consumer0 EXCEPT !.pc = "except", !.err = "consume"])
    /\ UNCHANGED <<backend, clock, FileVars, SqlVars, producers, History>>

\* consume_job(job) raises: mark_done is skipped and the error reaches the
\* handler of worker_loop
SqlWorkerConsumeError ==
    \E s \in BagToSet(consumers) :
    /\ backend = "sql" /\ s.pc = "consume"
    /\ consumers' = Replace(consumers, s, [Consumer0 EXCEPT !.pc = "except", !.err = "consume"])
    /\ UNCHANGED <<backend, clock, FileVars, SqlVars, producers, History>>

ConsumeRaisesNext == Next \/ FileWorkerConsumeError \/ SqlWorkerConsumeError

\* The program with a consume_job that may raise.
SpecConsumeRaises == Init /\ [][ConsumeRaisesNext]_vars

\* ------------------------------------------------- one consumer, no faults
\* One worker_loop and the add_job invocations; no storage error, no crash,
\* consume_job returns.
InitLive ==
    /\ backend \in {"file", "sql"}
    /\ clock = 0
    /\ fileExists = FALSE
    /\ file = <<>>
    /\ disk = <<>>
    /\ tableExists = FALSE
    /\ db = Db0
    /\ producers = Copies(Producer0, NumProducers)
    /\ consumers = SetToBag({Consumer0})
    /\ claimLog = <<>>
    /\ statusLog = <<>>

\* the steps of add_job
AddJobNext ==
    \/ FileAddJobExists \/ FileAddJobOpen \/ FileAddJobOpenDenied
    \/ FileAddJobLock \/ FileAddJobLockTimeout
    \/ FileAddJobWrite \/ FileAddJobUnlock
    \/ SqlAddJobInit \/ SqlAddJobBusy \/ SqlAddJobInsert \/ SqlAddJobCommit

\* the steps of worker_loop (alone, its init_db never finds the database
\* locked: add_job writes only after the table is there)
WorkerNext ==
    \/ FileWorkerNoFile \/ FileWorkerLock \/ FileWorkerLockTimeout
    \/ FileWorkerIdleUnlock \/ FileWorkerSleep
    \/ FileWorkerClaimWrite \/ FileWorkerClaimUnlock \/ FileWorkerConsume
    \/ FileWorkerDoneLock \/ FileWorkerDoneWrite \/ FileWorkerDoneUnlock
    \/ FileWorkerExcept
    \/ SqlWorkerInit
    \/ SqlFetchBegin \/ SqlWorkerBusy \/ SqlFetchSelect \/ SqlFetchCommit
    \/ SqlWorkerConsume \/ SqlMarkDone \/ SqlMarkDoneCommit
    \/ SqlWorkerSleep

LiveNext == AddJobNext \/ WorkerNext \/ Writeback

\* Every process that can take a step is scheduled.
SpecLive == InitLive /\ [][LiveNext]_vars /\ WF_vars(AddJobNext) /\ WF_vars(WorkerNext)

\* ------------------------------------------------- serial executions
\* A process is busy from the first step of an operation (add_job, one poll or
\* claim of worker_loop, one completion) to its last; between operations a
\* consumer sleeps, processes its job or is about to poll.
Busy(s) == s.pc \notin {"start", "begin", "sleep", "except", "consume",
                        "done", "failed", "terminated", "crashed"}
BusyCount(B) ==
    LET busy == {s \in BagToSet(B) : Busy(s)}
    IN  IF busy = {} THEN 0
        ELSE IF \E s \in busy : busy = {s} /\ CopiesIn(s, B) = 1 THEN 1 ELSE 2
Serial == BusyCount(producers) + BusyCount(consumers) <= 1

\* The operations executed one after another: no operation starts while
\* another one is under way, so no step meets a held lock.
SerialNext ==
    \/ FileAddJobExists /\ Serial'
    \/ FileAddJobOpen /\ Serial'
    \/ FileAddJobLock /\ Serial'
    \/ FileAddJobWrite /\ Serial'
    \/ FileAddJobUnlock /\ Serial'
    \/ FileWorkerNoFile /\ Serial'
    \/ FileWorkerLock /\ Serial'
    \/ FileWorkerIdleUnlock /\ Serial'
    \/ FileWorkerSleep /\ Serial'
    \/ FileWorkerClaimWrite /\ Serial'
    \/ FileWorkerClaimUnlock /\ Serial'
    \/ FileWorkerConsume /\ Serial'
    \/ FileWorkerDoneLock /\ Serial'
    \/ FileWorkerDoneWrite /\ Serial'
    \/ FileWorkerDoneUnlock /\ Serial'
    \/ SqlAddJobInit /\ Serial'
    \/ SqlAddJobInsert /\ Serial'
    \/ SqlAddJobCommit /\ Serial'
    \/ SqlWorkerInit /\ Serial'
    \/ SqlFetchBegin /\ Serial'
    \/ SqlFetchSelect /\ Serial'
    \/ SqlFetchCommit /\ Serial'
    \/ SqlWorkerConsume /\ Serial'
    \/ SqlMarkDone /\ Serial'
    \/ SqlMarkDoneCommit /\ Serial'
    \/ SqlWorkerSleep /\ Serial'

SpecSerial == Init /\ [][SerialNext]_vars

\* ------------------------------------- the two backends side by side
\* The same operations executed one after another on queue.csv and on queue.db
\* at once, each operation from its first step to its last: add_job, one
\* iteration of worker_loop up to consume_job (or to its sleep), and the
\* completion after consume_job.  A consumer is the pair of the two
\* worker_loops; its job holds the id claimed in the table (0 for none) and
\* the id claimed in the file ("" for none).
BothNoJob == [id |-> 0, file_id |-> ""]

InitBoth ==
    /\ backend = "both"
    /\ clock = 0
    /\ fileExists = FALSE
    /\ file = <<>>
    /\ disk = <<>>
    /\ tableExists = FALSE
    /\ db = Db0
    /\ producers = Copies(Producer0, NumSerialAdds)
    /\ consumers = Copies([Consumer0 EXCEPT !.job = BothNoJob], NumConsumers)
    /\ claimLog = <<>>
    /\ statusLog = <<>>

\* add_job() of both producers
BothAddJob ==
    \E s \in BagToSet(producers) :
    /\ backend = "both" /\ s.pc = "start"
    /\ clock' = clock + 1
    /\ LET rows == add_job_content(fileExists, open_contents(fileExists, file))
       IN  /\ file' = csv_string(rows, isoformat(clock'))
           /\ producers' = Replace(producers, s, [s EXCEPT
                 !.pc = "done", !.file_exists = fileExists, !.now = isoformat(clock'),
                 !.new_id = next_file_id(data_rows_of(rows))])
    /\ fileExists' = TRUE
    /\ disk' = fsync(file', disk)
    /\ tableExists' = TRUE
    /\ db' = sql_insert(db, "pending", isoformat(clock'))
    /\ UNCHANGED <<backend, consumers, History>>

\* worker_loop of both consumers from step 1: read_queue_with_lock,
\* find_pending_job and the claim written; init_db and fetch_pending_job
BothClaim ==
    \E s \in BagToSet(consumers) :
    /\ backend = "both" /\ s.pc = "start"
    /\ LET jobs == IF fileExists THEN read_jobs(file) ELSE <<>>
           k == find_pending_job(jobs)
           job_id == sql_select_pending(db)
       IN  /\ clock' = IF k = 0 /\ job_id = 0 THEN clock ELSE clock + 1
           /\ file' = IF k = 0 THEN file
                      ELSE csv_lines(read_header(file),
                               [jobs EXCEPT ![k] = claim_job(jobs[k], isoformat(clock'))])
           /\ db' = IF job_id = 0 THEN db
                    ELSE sql_update(db, "in_progress", isoformat(clock'), job_id)
           /\ consumers' = Replace(consumers, s,
                 IF k = 0 /\ job_id = 0 THEN s
                 ELSE [s EXCEPT !.pc = "consume",
                          !.job = [id |-> job_id,
                                   file_id |-> IF k = 0 THEN "" ELSE Get(jobs[k], "id", "")]])
    /\ disk' = fsync(file', disk)
    /\ tableExists' = TRUE
    /\ UNCHANGED <<backend, fileExists, producers, History>>

\* consume_job has returned: the completion written by both consumers
BothComplete ==
    \E s \in BagToSet(consumers) :
    /\ backend = "both" /\ s.pc = "consume"
    /\ clock' = clock + 1
    /\ file' = IF s.job["file_id"] = "" THEN file
               ELSE csv_lines(read_header(file),
                        mark_jobs_done(read_jobs(file), s.job["file_id"], isoformat(clock')))
    /\ disk' = fsync(file', disk)
    /\ db' = IF s.job["id"] = 0 THEN db
             ELSE sql_update(db, "done", isoformat(clock'), s.job["id"])
    /\ consumers' = Replace(consumers, s, [s EXCEPT !.pc = "start", !.job = BothNoJob])
    /\ UNCHANGED <<backend, fileExists, tableExists, producers, History>>

BothNext == BothAddJob \/ BothClaim \/ BothComplete

SpecBoth == InitBoth /\ [][BothNext]_vars

\* ------------------------------------------ read_queue_with_lock alone
\* What a line of a queue file can hold: the fields of a job, or the first
\* n of them (a line cut short; "".split(",") is one empty field).
FullRows ==
    {<<id, status, isoformat(1), updated_at>> :
        id \in {"1", "2"}, status \in {"pending", "done"}, updated_at \in {"", isoformat(2)}}
RowInputs ==
    {<<"">>} \cup {SubSeq(r, 1, n) : r \in FullRows, n \in 1..Len(DefaultHeader)}

RECURSIVE RowLists(_)
\* the lists of at most n data rows
RowLists(n) ==
    IF n = 0 THEN {<<>>}
    ELSE RowLists(n - 1) \cup
         {Append(l, r) : l \in {x \in RowLists(n - 1) : Len(x) = n - 1}, r \in RowInputs}

\* queue.csv as found: the header and at most MaxRows data rows
InitRead ==
    /\ backend = "read"
    /\ clock = 0
    /\ fileExists = TRUE
    /\ file \in {<<DefaultHeader>> \o l : l \in RowLists(MaxRows)}
    /\ disk = file
    /\ tableExists = FALSE
    /\ db = Db0
    /\ producers = Copies(Producer0, NumProducers)
    /\ consumers = Copies(Consumer0, NumConsumers)
    /\ claimLog = <<>>
    /\ statusLog = <<>>

\* f, header, jobs = read_queue_with_lock()
ReadQueueWithLock ==
    \E s \in BagToSet(consumers) :
    /\ backend = "read" /\ s.pc = "start"
    /\ fileExists
    /\ LockFree
    /\ consumers' = Replace(consumers, s, [lock_file(s) EXCEPT
            !.pc = "read", !.header = read_header(file), !.jobs = read_jobs(file)])
    /\ UNCHANGED <<backend, clock, FileVars, SqlVars, producers, History>>

SpecRead == InitRead /\ [][ReadQueueWithLock]_vars

\* ------------------------------------------------------------ the store
\* int(x) of an id read from queue.csv (-1 when x is not the text of an id)
IdNum(x) ==
    IF \E n \in 0..(NumProducers + NumSerialAdds) : str(n) = x
    THEN CHOOSE n \in 0..(NumProducers + NumSerialAdds) : str(n) = x
    ELSE -1

\* The job records of a queue file, ids as numbers
FileStore(content) ==
    LET jobs == read_jobs(content)
    IN  [i \in 1..Len(jobs) |->
            [id |-> IdNum(Get(jobs[i], "id", "")),
             status |-> Get(jobs[i], "status", ""),
             created_at |-> Get(jobs[i], "created_at", ""),
             updated_at |-> Get(jobs[i], "updated_at", "")]]

\* The job records a fresh load of the store returns
Store == IF backend = "file" THEN FileStore(file) ELSE db.rows

\* (id, created_at) of every stored record
StoreKeys == {<<Store[i].id, Store[i].created_at>> : i \in 1..Len(Store)}

\* The n of a timestamp isoformat(n) (-1 for the empty field)
TimeNum(x) ==
    IF \E n \in 0..(3 * (NumProducers + NumSerialAdds)) : isoformat(n) = x
    THEN CHOOSE n \in 0..(3 * (NumProducers + NumSerialAdds)) : isoformat(n) = x
    ELSE -1

\* the id a process holds, as a number
JobId(s) == IF backend = "file" THEN IdNum(s.job["id"]) ELSE s.job["id"]

\* A consumer whose claim is persisted and whose completion is not yet
Claiming(s) ==
    s.pc \in {"claim_unlock", "consume", "done_lock", "done_write", "mark_done", "mark_commit"}

AllDone == \A s \in BagToSet(producers) : s.pc = "done"

StatusOrder == <<"pending", "in_progress", "done">>
IsPrefix(a, b) == Len(a) <= Len(b) /\ \A i \in 1..Len(a) : a[i] = b[i]

\* ------------------------------------------------------------- claims
\* C1: no two consumers hold, at the same time, a claim of the same job id
\* (each pending job is claimed by at most one consumer).
C1_AtomicClaim ==
    \A s \in BagToSet(consumers) : Claiming(s) =>
        /\ CopiesIn(s, consumers) = 1
        /\ \A t \in BagToSet(consumers) : (t # s /\ Claiming(t)) => JobId(t) # JobId(s)

\* C2: flat-file backend: once all concurrent add_job invocations are done,
\* their ids are pairwise distinct and the file holds one record per invocation.
C2_ConcurrentAdd ==
    (backend = "file" /\ AllDone) =>
        /\ \A s \in BagToSet(producers) :
              /\ CopiesIn(s, producers) = 1
              /\ \A t \in BagToSet(producers) : t # s => t.new_id # s.new_id
        /\ Len(Store) = NumProducers

\* C3: flat-file backend: the statuses persisted for an id over time are a
\* prefix of pending, in_progress, done.
C3_MonotonicStatus ==
    backend = "file" => \A id \in DOMAIN statusLog : IsPrefix(statusLog[id], StatusOrder)

\* C4: flat-file backend: the contents of the queue file change only in a step
\* of a process that holds the whole-file lock.
C4_LockDiscipline ==
    [][(backend = "file" /\ file' # file) =>
          \E s \in Procs : s.lock = "exclusive"]_vars

\* C5: a stored record stays in the store, with its id and its created_at.
C5_RecordsPersist ==
    [][\A k \in StoreKeys : k \in StoreKeys']_vars

\* C8: the ids of successive claims are strictly increasing.
C8_ClaimOrder ==
    \A i \in 1..(Len(claimLog) - 1) :
        (IF backend = "file" THEN IdNum(claimLog[i]) ELSE claimLog[i])
            < (IF backend = "file" THEN IdNum(claimLog[i + 1]) ELSE claimLog[i + 1])

\* C10: flat-file backend: the job of an add_job that has returned is on the
\* disk (what a read after a restart finds).
C10_Durable ==
    backend = "file" =>
        \A s \in BagToSet(producers) : s.pc = "done" =>
            \E i \in 1..Len(FileStore(disk)) :
                /\ FileStore(disk)[i].id = s.new_id
                /\ FileStore(disk)[i].created_at = s.now

\* the add_job invocations that have returned
DoneProducers == {s \in BagToSet(producers) : s.pc = "done"}

\* updated_at as add_job leaves it: the empty field, or NULL
NoUpdatedAt == IF backend = "file" THEN "" ELSE NULL

Moves(s, t) == s # t /\ consumers' = Replace(consumers, s, t)

\* step 1 of the loop of worker_loop
FirstStep == IF backend = "file" THEN "start" ELSE "begin"

\* The consumer is inside the loop of worker_loop.
InLoop(s) ==
    IF backend = "file" THEN s.pc \notin {"crashed", "terminated"}
    ELSE s.pc \notin {"start", "crashed", "terminated"}

\* C11: an exception raised in a step of the loop of worker_loop does not end
\* the consumer: the consumer is in the handler (backoff) right after it, and
\* leaves the handler for step 1 of the loop.
C11_ExceptionsCaught ==
    [][\A s \in BagToSet(consumers) : \A t \in BagToSet(consumers') :
          (Moves(s, t) /\ InLoop(s)) =>
              /\ t.pc # "terminated"
              /\ t.err # "" => t.pc = "except"
              /\ s.pc = "except" => (t.pc = FirstStep /\ t.err = "")]_vars

\* C11 witness: a consumer is in the handler after an exception raised in its
\* complete step, another one after an exception raised while it acquired.
C11_Witness ==
    /\ \E s \in BagToSet(consumers) : s.pc = "except" /\ s.err = "mark_done"
    /\ \E s \in BagToSet(consumers) : s.pc = "except" /\ s.err = "busy"

\* C12: flat-file backend: no add_job and no consumer iteration ends in an
\* error because the lock was held by another process.
C12_NoContentionError ==
    backend = "file" => \A s \in Procs : s.err # "lock"

\* C13: the job claimed by a consumer that crashed before completing it is in
\* the store with status in_progress, in every later state.
C13_CrashedStaysClaimed ==
    \A s \in BagToSet(consumers) : s.pc = "crashed" =>
        \E i \in 1..Len(Store) :
            Store[i].id = JobId(s) /\ Store[i].status = "in_progress"

\* The records after differ from the records before in the record with id k
\* only, which is done with updated_at set.
Frame(before, after, k) ==
    /\ Len(after) = Len(before)
    /\ \A i \in 1..Len(before) :
          IF before[i].id = k
          THEN /\ after[i].id = k
               /\ after[i].created_at = before[i].created_at
               /\ after[i].status = "done"
               /\ after[i].updated_at \notin {"", NULL}
          ELSE after[i] = before[i]

\* C14: the complete step of a consumer holding job k changes the record with
\* id k only (flat file: what it writes back against what it read under the
\* lock; table: the commit of mark_done); and when one claim was made and job
\* 1 of two is done, job 2 is pending.
C14_CompleteFrame ==
    /\ [](  (Len(claimLog) = 1 /\ Len(Store) = 2 /\ Store[1].status = "done") =>
               (Store[1].id = 1 /\ Store[2].id = 2 /\ Store[2].status = "pending"))
    /\ [][\A s \in BagToSet(consumers) : \A t \in BagToSet(consumers') :
            Moves(s, t) =>
              /\ (s.pc = "done_lock" /\ t.pc = "done_write") =>
                    Frame(FileStore(file), FileStore(csv_lines(t.header, t.jobs)), JobId(s))
              /\ (s.pc = "done_write" /\ t.pc = "done_unlock") =>
                    file' = csv_lines(s.header, s.jobs)
              /\ (s.pc = "mark_commit" /\ t.pc = "begin") =>
                    Frame(db.rows, db'.rows, JobId(s))]_vars

\* C14 witness: jobs 1 and 2 were added, then job 1 was claimed and completed:
\* job 1 is done and job 2 is pending.
C14_Witness ==
    /\ Len(claimLog) = 1 /\ Len(Store) = 2
    /\ Store[1].created_at = isoformat(1) /\ Store[2].created_at = isoformat(2)
    /\ Store[1].status = "done" /\ Store[1].updated_at = isoformat(4)
    /\ Store[2].status = "pending"

\* C15: operations executed one after another from no store at all: after
\* each of them queue.csv and table jobs hold the same (id, status) records in
\* the same order, and the same jobs have an empty updated_at.
C15_BackendsAgree ==
    LET F == FileStore(file)
        S == db.rows
    IN  /\ Len(F) = Len(S)
        /\ \A i \in 1..Len(F) :
              /\ F[i].id = S[i].id
              /\ F[i].status = S[i].status
              /\ (F[i].updated_at = "") <=> (S[i].updated_at = NULL)

\* C15 witness: both stores after every add_job, a claim and completion of
\* job 1 and a claim of job 2.
C15_Witness ==
    /\ backend = "both"
    /\ Len(db.rows) = NumSerialAdds /\ Len(FileStore(file)) = NumSerialAdds
    /\ db.rows[1].status = "done" /\ db.rows[2].status = "in_progress"
    /\ FileStore(file)[NumSerialAdds].status = "pending"

\* C16: read_queue_with_lock returns one job per data row, in file order; a
\* field of the job is the field of the row, and the empty string where the
\* row has no such field.
C16_ShortRowsPadded ==
    \A s \in BagToSet(consumers) : s.pc = "read" =>
        /\ s.header = file[1]
        /\ Len(s.jobs) = Len(file) - 1
        /\ \A i \in 1..Len(s.jobs) : \A j \in 1..Len(file[1]) :
              Get(s.jobs[i], file[1][j], NULL) =
                  IF j <= Len(file[i + 1]) THEN file[i + 1][j] ELSE ""

\* C16 witness: the file read holds a row with fewer fields than the header,
\* followed by a complete row.
C16_Witness ==
    /\ \E s \in BagToSet(consumers) : s.pc = "read" /\ Len(s.jobs) = 2
    /\ Len(file) = 3
    /\ Len(file[2]) < Len(file[1])
    /\ Len(file[3]) = Len(file[1])

\* C17: flat-file backend: a consumer that sleeps (after an idle poll or in
\* the handler) or starts an iteration holds no lock.
C17_LockReleased ==
    backend = "file" =>
        \A s \in BagToSet(consumers) :
            s.pc \in {"sleep", "except", "start"} => s.lock = "none"

\* C18: transactional backend: when fetch_pending_job raises, the table is as
\* before the call, nothing was recorded as claimed, and the consumer holds no
\* lock.
C18_FetchRollback ==
    [][\A s \in BagToSet(consumers) : \A t \in BagToSet(consumers') :
          (backend = "sql" /\ Moves(s, t)
              /\ s.pc \in {"begin", "select", "claim_commit"} /\ t.pc = "except") =>
              /\ db' = db
              /\ History' = History
              /\ t.lock = "none"]_vars

\* C18 witness: fetch_pending_job has raised inside its transaction while a
\* job was pending; the job is still pending.
C18_Witness ==
    /\ backend = "sql"
    /\ \E s \in BagToSet(consumers) : s.pc = "except" /\ s.err = "fetch"
    /\ Len(db.rows) > 0
    /\ \A i \in 1..Len(db.rows) : db.rows[i].status = "pending"

\* C19: a consumer that sleeps after a poll holds no lock and no transaction;
\* the steps of an idle poll (finding no pending job, releasing, sleeping)
\* leave the store as it is, and the sleep is followed by step 1.
C19_IdlePoll ==
    /\ [](\A s \in BagToSet(consumers) : s.pc = "sleep" => (s.lock = "none" /\ s.tx = Db0))
    /\ [][\A s \in BagToSet(consumers) : \A t \in BagToSet(consumers') :
            (Moves(s, t) /\ (s.pc \in {"idle_unlock", "sleep"} \/ t.pc \in {"idle_unlock", "sleep"})) =>
                /\ UNCHANGED <<FileVars, SqlVars, History>>
                /\ s.pc = "idle_unlock" => t.pc = "sleep"
                /\ s.pc = "sleep" => t.pc = FirstStep]_vars

\* C19 witness: a consumer sleeps while the store holds jobs, none pending.
C19_Witness ==
    /\ \E s \in BagToSet(consumers) : s.pc = "sleep"
    /\ Len(Store) > 0
    /\ \A i \in 1..Len(Store) : Store[i].status # "pending"

\* C20: a stored job has an empty updated_at exactly when its status is
\* pending.
C20_UpdatedAtIffNotPending ==
    \A i \in 1..Len(Store) :
        (Store[i].updated_at = NoUpdatedAt) <=> (Store[i].status = "pending")

\* C20 witness: the store holds a pending job and a claimed or done one.
C20_Witness ==
    /\ \E i \in 1..Len(Store) : Store[i].status = "pending"
    /\ \E i \in 1..Len(Store) : Store[i].status \in {"in_progress", "done"}

\* C21: flat-file backend: a consumer iteration that finds no queue file goes
\* to its sleep with no error, no lock and the file still absent; the file
\* comes into being in a step of add_job only; and the first job claimed is
\* the job written by the first add_job.
C21_NoFilePoll ==
    /\ [][\A s \in BagToSet(consumers) : \A t \in BagToSet(consumers') :
            (backend = "file" /\ Moves(s, t) /\ s.pc = "start" /\ ~fileExists) =>
                /\ t.pc = "sleep" /\ t.lock = "none" /\ t.err = ""
                /\ UNCHANGED FileVars]_vars
    /\ [][(backend = "file" /\ fileExists' # fileExists) =>
            (consumers' = consumers /\ producers' # producers)]_vars
    /\ [](backend = "file" =>
            \A s \in BagToSet(consumers) :
                (Len(claimLog) = 1 /\ Claiming(s)) =>
                    Get(s.job, "created_at", NULL) = isoformat(1))

\* C22: flat-file backend: when a consumer writes the completion of its job,
\* the file then holds that job as done, and every job that an add_job wrote
\* after the consumer's claim, pending (or as another consumer has left it).
C22_AddDuringProcessing ==
    [][\A s \in BagToSet(consumers) : \A t \in BagToSet(consumers') :
          (backend = "file" /\ Moves(s, t) /\ s.pc = "done_write" /\ t.pc = "done_unlock") =>
              LET F == FileStore(file)
                  G == FileStore(file')
              IN  /\ \E i \in 1..Len(G) :
                        /\ G[i].id = JobId(s)
                        /\ G[i].created_at = Get(s.job, "created_at", NULL)
                        /\ G[i].status = "done"
                  /\ \A p \in BagToSet(producers) :
                        (/\ p.pc \in {"unlock", "done"}
                         /\ TimeNum(p.now) > TimeNum(Get(s.job, "updated_at", ""))) =>
                            \E i \in 1..Len(G) :
                                /\ G[i].id = p.new_id
                                /\ G[i].created_at = p.now
                                /\ \/ G[i].status = "pending"
                                   \/ \E j \in 1..Len(F) : F[j] = G[i]]_vars

\* A job that is in_progress in the store while no consumer, running or dead,
\* holds it: its consumer has been through the handler.
Orphaned(r) ==
    /\ r.status = "in_progress"
    /\ ~\E s \in BagToSet(consumers) :
          (Claiming(s) \/ s.pc = "crashed") /\ JobId(s) = r.id

\* C23: when consume_job raises, the consumer is in the handler with no lock
\* and the store unchanged; it does not terminate and leaves the handler for
\* step 1; and a job left in_progress with no consumer holding it stays
\* in_progress.
C23_ConsumeRaises ==
    /\ [][\A s \in BagToSet(consumers) : \A t \in BagToSet(consumers') :
            (Moves(s, t) /\ s.pc \in {"consume", "except"}) =>
                /\ t.pc # "terminated"
                /\ t.err = "consume" =>
                      (t.pc = "except" /\ t.lock = "none" /\ UNCHANGED <<FileVars, SqlVars>>)
                /\ s.pc = "except" => t.pc = FirstStep]_vars
    /\ [][\A i \in 1..Len(Store) :
            Orphaned(Store[i]) =>
                \E j \in 1..Len(Store') :
                    /\ Store'[j].id = Store[i].id
                    /\ Store'[j].created_at = Store[i].created_at
                    /\ Store'[j].status = "in_progress"]_vars

\* The add_job that read the clock at n has returned.
Submitted(n) ==
    \E p \in BagToSet(producers) : p.pc = "done" /\ p.now = isoformat(n)

\* The job created at n is in the store with status done.
JobDone(n) ==
    \E i \in 1..Len(Store) : Store[i].created_at = isoformat(n) /\ Store[i].status = "done"

\* C24: one consumer, no faults, fair scheduling: the job of every add_job
\* that has returned is eventually done.
C24_EveryJobDone ==
    \A n \in 1..(3 * NumProducers) : Submitted(n) ~> JobDone(n)

====
